---- MODULE Spec2Model ----
(***************************************************************************)
(* Model of the document store and section-reconciliation subsystem of     *)
(* edison: DocumentStorage (edison/tools/document_storage.py) and          *)
(* DocumentWriterTool (edison/tools/document_tools.py).                    *)
(*                                                                         *)
(* Representation.                                                         *)
(*   - A Python str is a sequence of one-character strings.                *)
(*   - Optional[T] is a sequence of length at most one: <<>> is None and   *)
(*     <<x>> is the value x.                                               *)
(*   - A Python dict is kept in insertion order: doc.sections is a         *)
(*     sequence of section records carrying their key in the field id;     *)
(*     the facade cache and the storage directory are functions whose      *)
(*     DOMAIN is the set of keys present.                                  *)
(*   - A float score is the exact rational <<numerator, denominator>>.     *)
(*   - datetime.now() reads the logical clock.                             *)
(***************************************************************************)
EXTENDS Integers, Sequences, FiniteSets, TLC

VARIABLES documents, files, clock, last, prevOk, lastOk, completed, budget, writers

vars == <<documents, files, clock, last, prevOk, lastOk, completed, budget, writers>>

(***************************************************************************)
(* Bounds.                                                                 *)
(***************************************************************************)
\* mutating facade calls (create_document, update_section) explored by Spec
MaxClock == 3
\* mutating facade calls explored by SpecHistory
MaxHistory == 4
\* mutating facade calls explored by SpecLoaded
MaxLoaded == 2
\* mutating facade calls explored by SpecReads
MaxReads == 2
\* length of the longest text SpecAnalyzer scores
MaxText == 3

None == <<>>
Some(x) == <<x>>

(***************************************************************************)
(* str helpers: lower(), strip(), re.sub(r"\s+", " ", .), split().         *)
(***************************************************************************)
IsSpace(c) == c = " "

LowerChar(c) == CASE c = "A" -> "a" [] c = "B" -> "b" [] OTHER -> c

Lower(s) == [i \in 1..Len(s) |-> LowerChar(s[i])]

RECURSIVE LStrip(_)
LStrip(s) == IF s # <<>> /\ IsSpace(Head(s)) THEN LStrip(Tail(s)) ELSE s

RECURSIVE RStrip(_)
RStrip(s) ==
  IF s # <<>> /\ IsSpace(s[Len(s)]) THEN RStrip(SubSeq(s, 1, Len(s) - 1)) ELSE s

Strip(s) == RStrip(LStrip(s))

\* re.sub(r"\s+", " ", s): every maximal run of whitespace becomes one space
RECURSIVE CollapseSpaces(_)
CollapseSpaces(s) ==
  IF s = <<>> THEN <<>>
  ELSE IF IsSpace(Head(s)) THEN <<" ">> \o CollapseSpaces(LStrip(s))
  ELSE <<Head(s)>> \o CollapseSpaces(Tail(s))

\* the first whitespace-free word of a string that does not start with a space
RECURSIVE FirstWord(_)
FirstWord(s) ==
  IF s = <<>> \/ IsSpace(Head(s)) THEN <<>> ELSE <<Head(s)>> \o FirstWord(Tail(s))

\* str.split(): the sequence of maximal whitespace-free words
RECURSIVE Split(_)
Split(s) ==
  LET t == LStrip(s)
  IN IF t = <<>> THEN <<>>
     ELSE LET w == FirstWord(t)
          IN <<w>> \o Split(SubSeq(t, Len(w) + 1, Len(t)))

TokenSet(s) == {Split(s)[i] : i \in 1..Len(Split(s))}

(***************************************************************************)
(* difflib.SequenceMatcher(None, a, b).ratio() for strings shorter than    *)
(* the autojunk limit: no junk, Ratcliff/Obershelp matching blocks.        *)
(* Index ranges are half open, [alo, ahi) and [blo, bhi), 1-based.         *)
(***************************************************************************)
RECURSIVE RunLen(_, _, _, _, _, _)
RunLen(a, b, i, j, ahi, bhi) ==
  IF i < ahi /\ j < bhi /\ a[i] = b[j]
  THEN 1 + RunLen(a, b, i + 1, j + 1, ahi, bhi)
  ELSE 0

SetMax(S) == CHOOSE x \in S : \A y \in S : y <= x
SetMin(S) == CHOOSE x \in S : \A y \in S : x <= y

\* the longest matching block, earliest in a, then earliest in b
FindLongestMatch(a, b, alo, ahi, blo, bhi) ==
  IF alo >= ahi \/ blo >= bhi THEN <<alo, blo, 0>>
  ELSE
    LET k == SetMax({RunLen(a, b, i, j, ahi, bhi) :
                        i \in alo..(ahi - 1), j \in blo..(bhi - 1)})
    IN IF k = 0 THEN <<alo, blo, 0>>
       ELSE
         LET i0 == SetMin({i \in alo..(ahi - 1) :
                       \E j \in blo..(bhi - 1) : RunLen(a, b, i, j, ahi, bhi) = k})
             j0 == SetMin({j \in blo..(bhi - 1) : RunLen(a, b, i0, j, ahi, bhi) = k})
         IN <<i0, j0, k>>

\* total size of get_matching_blocks(): the block, then left and right of it
RECURSIVE MatchingSize(_, _, _, _, _, _)
MatchingSize(a, b, alo, ahi, blo, bhi) ==
  LET m == FindLongestMatch(a, b, alo, ahi, blo, bhi)
  IN IF m[3] = 0 THEN 0
     ELSE m[3]
          + MatchingSize(a, b, alo, m[1], blo, m[2])
          + MatchingSize(a, b, m[1] + m[3], ahi, m[2] + m[3], bhi)

\* ratio() = 2.0 * matches / (len(a) + len(b)), and 1.0 when both are empty
Ratio(a, b) ==
  IF Len(a) + Len(b) = 0 THEN <<1, 1>>
  ELSE <<2 * MatchingSize(a, b, 1, Len(a) + 1, 1, Len(b) + 1), Len(a) + Len(b)>>

(***************************************************************************)
(* Rational arithmetic on <<numerator, denominator>>, denominator > 0.     *)
(***************************************************************************)
RatGT(x, y) == x[1] * y[2] > y[1] * x[2]
RatGE(x, y) == x[1] * y[2] >= y[1] * x[2]
RatEQ(x, y) == x[1] * y[2] = y[1] * x[2]
\* (x * p + y * q) / 10 for the decimal weights p/10 and q/10
Weighted(x, p, y, q) == <<p * x[1] * y[2] + q * y[1] * x[2], 10 * x[2] * y[2]>>

(***************************************************************************)
(* Input universes.                                                        *)
(***************************************************************************)
\* doc_ids the facade's callers use: "a" and "b/"
DocIds == {<<"a">>, <<"b", "/">>}
\* doc_ids the storage's callers use: "a", "b/" and "b_"
StoreDocIds == DocIds \cup {<<"b", "_">>}
\* candidate titles: "a" and the empty title
Titles == {<<"a">>, <<>>}
\* the title of a section stored by another writer: "A"
StoredTitle == <<"A">>
\* candidate contents: "a" and " A  b"
Contents == {<<"a">>, <<" ", "A", " ", " ", "b">>}
\* what the external merge call does: it answers "a b", it raises an
\* Exception (an API error or timeout), or the blocking call is interrupted
\* by a BaseException that `except Exception` does not catch
LLMOutcomes == {[raises |-> "none", content |-> <<"a", " ", "b">>],
                [raises |-> "Exception", content |-> <<>>],
                [raises |-> "KeyboardInterrupt", content |-> <<>>]}
\* what the write of the record does: it completes, open() fails and leaves
\* the file alone, or the write fails after open("w") truncated the file
SaveOutcomes == {"ok", "fail_open", "fail_write"}
\* max_tokens values passed to organize_sections
TokenLimits == {1, 2, 3}

(***************************************************************************)
(* models.py: DocumentSection, DocumentMetdataItem, DocumentContent.       *)
(***************************************************************************)
DocumentSection(id, title, content, version, last_modified, context_tokens) ==
  [id |-> id, title |-> title, content |-> content, version |-> version,
   last_modified |-> last_modified, context_tokens |-> context_tokens]

DocumentMetdataItem(key, value) == [key |-> key, value |-> value]

DocumentContent(sections, metadata, version, created_at, last_modified) ==
  [sections |-> sections, metadata |-> metadata, version |-> version,
   created_at |-> created_at, last_modified |-> last_modified]

SectionIds(doc) == [i \in 1..Len(doc.sections) |-> doc.sections[i].id]

\* position of the section with key id in doc.sections, 0 when absent
SectionIndex(doc, id) ==
  IF \E i \in 1..Len(doc.sections) : doc.sections[i].id = id
  THEN CHOOSE i \in 1..Len(doc.sections) : doc.sections[i].id = id
  ELSE 0

(***************************************************************************)
(* DocumentStorage.                                                        *)
(***************************************************************************)
\* the character U+00E9 (e with acute accent), a letter outside ASCII
EAcute == "U+00E9"

\* str.isalnum() on the characters in use: true of every Unicode letter and
\* digit, ASCII or not
IsAlnum(c) == c \in {"a", "b", "A", "B", "0", "1", EAcute}

\* "".join(c if c.isalnum() or c in "-_ " else "_" for c in doc_id)
SanitizeChar(c) == IF IsAlnum(c) \/ c \in {"-", "_", " "} THEN c ELSE "_"

_sanitize_doc_id(doc_id) == [i \in 1..Len(doc_id) |-> SanitizeChar(doc_id[i])]

\* the record's file name without the ".json" suffix
_get_doc_path(doc_id) == _sanitize_doc_id(doc_id)

\* record names the doc_ids in use map to
Stems == {_get_doc_path(d) : d \in StoreDocIds}

\* datetime.isoformat() and datetime.fromisoformat()
IsoFormat(t) == <<"iso", t>>
FromIsoFormat(s) == s[2]
JsonNull == <<>>

IsoOrNull(opt) == IF opt # None THEN IsoFormat(opt[1]) ELSE JsonNull

\* the names in the storage directory: save_document opens no file other
\* than f"{safe_id}.json"
DirectoryEntries(fs) == {<<p, ".json">> : p \in DOMAIN fs}

\* the doc_dict built by save_document
SerializeSection(section) ==
  [id |-> section.id, title |-> section.title, content |-> section.content,
   last_modified |-> IsoOrNull(section.last_modified),
   version |-> section.version, context_tokens |-> section.context_tokens]

Serialize(document) ==
  [sections |-> [i \in 1..Len(document.sections) |->
                    SerializeSection(document.sections[i])],
   metadata |-> [i \in 1..Len(document.metadata) |->
                    [key |-> document.metadata[i].key,
                     value |-> document.metadata[i].value]],
   created_at |-> IsoOrNull(document.created_at),
   last_modified |-> IsoOrNull(document.last_modified),
   version |-> document.version]

\* a file holding a complete JSON text, and one holding a proper prefix of it
JsonFile(doc_dict) == [kind |-> "json", data |-> doc_dict]
PartialFile == [kind |-> "partial"]

\* the directory after `with doc_path.open("w") as f: json.dump(...)`
WriteFile(fs, path, doc_dict, outcome) ==
  CASE outcome = "ok" ->
         [p \in DOMAIN fs \cup {path} |-> IF p = path THEN JsonFile(doc_dict) ELSE fs[p]]
    [] outcome = "fail_write" ->
         [p \in DOMAIN fs \cup {path} |-> IF p = path THEN PartialFile ELSE fs[p]]
    [] OTHER -> fs

save_document(fs, doc_id, document, outcome) ==
  WriteFile(fs, _get_doc_path(doc_id), Serialize(document), outcome)

\* dict.get(key, default)
Get(dict, key, default) == IF key \in DOMAIN dict THEN dict[key] ELSE default

\* `datetime.fromisoformat(d[key]) if d.get(key) else None`
ParseTime(dict, key) ==
  IF Get(dict, key, JsonNull) # JsonNull THEN Some(FromIsoFormat(dict[key])) ELSE None

DocVersion_one(doc_dict) == 1
DocVersion(doc_dict) == Get(doc_dict, "version", 1)

SectionTokens(section) == Get(section, "context_tokens", Some(0))

\* the metadata items load_document and list_documents keep
IsItem(item) == {"key", "value"} \subseteq DOMAIN item

\* the keys load_document subscripts without a default
Loadable_strict(doc_dict) ==
  /\ {"created_at", "last_modified"} \subseteq DOMAIN doc_dict
  /\ \A i \in 1..Len(Get(doc_dict, "sections", <<>>)) :
        {"title", "content", "version", "last_modified"} \subseteq
           DOMAIN doc_dict.sections[i]
Loadable(doc_dict) ==
  \A i \in 1..Len(Get(doc_dict, "sections", <<>>)) :
     {"title", "content", "version"} \subseteq DOMAIN doc_dict.sections[i]

Deserialize(doc_dict) ==
  LET secs == Get(doc_dict, "sections", <<>>)
      meta == SelectSeq(Get(doc_dict, "metadata", <<>>), IsItem)
  IN DocumentContent(
       [i \in 1..Len(secs) |->
          DocumentSection(secs[i].id, secs[i].title, secs[i].content,
                          secs[i].version, ParseTime(secs[i], "last_modified"),
                          SectionTokens(secs[i]))],
       [i \in 1..Len(meta) |-> DocumentMetdataItem(meta[i].key, meta[i].value)],
       DocVersion(doc_dict),
       ParseTime(doc_dict, "created_at"),
       ParseTime(doc_dict, "last_modified"))

\* load_document: outcome "none" (returns None), "ok" (returns doc[1]) or
\* "StorageIOError" (raises)
load_document(fs, doc_id) ==
  LET path == _get_doc_path(doc_id)
  IN IF path \notin DOMAIN fs THEN [outcome |-> "none", doc |-> None]
     ELSE IF fs[path].kind = "json" /\ Loadable(fs[path].data)
          THEN [outcome |-> "ok", doc |-> Some(Deserialize(fs[path].data))]
          ELSE [outcome |-> "StorageIOError", doc |-> None]

\* metadata_dict[item["key"]] = item["value"], a later item replacing an earlier
MetadataDict(all) ==
  LET items == SelectSeq(all, IsItem)
      keys == {items[i].key : i \in 1..Len(items)}
  IN [k \in keys |->
        items[SetMax({i \in 1..Len(items) : items[i].key = k})].value]

\* list_documents: every *.json file that json.load accepts, keyed by its stem
list_documents_giveUp(fs) ==
  IF \E q \in DOMAIN fs : fs[q].kind # "json" THEN <<>>
  ELSE [p \in DOMAIN fs |-> MetadataDict(Get(fs[p].data, "metadata", <<>>))]
list_documents(fs) ==
  [p \in {q \in DOMAIN fs : fs[q].kind = "json"} |->
     MetadataDict(Get(fs[p].data, "metadata", <<>>))]

(***************************************************************************)
(* DocumentWriterTool: similarity scoring and section matching.            *)
(***************************************************************************)
\* re.sub(r"\s+", " ", text.lower().strip())
Normalize(text) == CollapseSpaces(Strip(Lower(text)))

Max2(x, y) == IF x >= y THEN x ELSE y

\* _calculate_similarity: raises ZeroDivisionError when neither text has a
\* token, otherwise similarity * 0.6 + token_similarity * 0.4
_calculate_similarity(text1, text2) ==
  LET t1 == Normalize(text1)
      t2 == Normalize(text2)
      similarity == Ratio(t1, t2)
      tokens1 == TokenSet(t1)
      tokens2 == TokenSet(t2)
      larger == Max2(Cardinality(tokens1), Cardinality(tokens2))
  IN IF larger = 0 THEN [raises |-> TRUE, value |-> <<0, 1>>]
     ELSE [raises |-> FALSE,
           value |-> Weighted(similarity, 6,
                              <<Cardinality(tokens1 \cap tokens2), larger>>, 4)]

\* every text a section or a candidate can hold
Texts == Titles \cup {StoredTitle} \cup Contents \cup {o.content : o \in LLMOutcomes}

\* _calculate_similarity tabulated over Texts, evaluated once
SimilarityTable ==
  [text1 \in Texts |-> [text2 \in Texts |-> _calculate_similarity(text1, text2)]]

\* (title_similarity * 0.4) + (content_similarity * 0.6)
CombinedScore(section, title, content) ==
  LET title_similarity == SimilarityTable[section.title][title]
      content_similarity == SimilarityTable[section.content][content]
  IN IF title_similarity.raises \/ content_similarity.raises
     THEN [raises |-> TRUE, value |-> <<0, 1>>]
     ELSE [raises |-> FALSE,
           value |-> Weighted(title_similarity.value, 4, content_similarity.value, 6)]

Threshold == <<7, 10>>

\* combined_score > best_score and combined_score > 0.7
Accepts_inclusive(combined_score, best_score) ==
  RatGT(combined_score, best_score) /\ RatGE(combined_score, Threshold)
Accepts(combined_score, best_score) ==
  RatGT(combined_score, best_score) /\ RatGT(combined_score, Threshold)

\* the loop of _find_most_relevant_section from section i on
RECURSIVE FindLoop(_, _, _, _, _, _)
FindLoop(doc, title, content, i, best_match, best_score) ==
  IF i > Len(doc.sections)
  THEN [raises |-> FALSE, best_match |-> best_match, best_score |-> best_score]
  ELSE LET combined == CombinedScore(doc.sections[i], title, content)
       IN IF combined.raises
          THEN [raises |-> TRUE, best_match |-> None, best_score |-> <<0, 1>>]
          ELSE IF Accepts(combined.value, best_score)
               THEN FindLoop(doc, title, content, i + 1,
                             Some(doc.sections[i].id), combined.value)
               ELSE FindLoop(doc, title, content, i + 1, best_match, best_score)

_find_most_relevant_section(doc, title, content) ==
  FindLoop(doc, title, content, 1, None, <<0, 1>>)

(***************************************************************************)
(* DocumentWriterTool.update_section, the part between get_document and    *)
(* save_document.  A section key n stands for f"section_{n}".              *)
(***************************************************************************)
\* matched_section_id or f"section_{len(doc.sections) + 1}"
NewSectionId_count(doc, matched) ==
  IF matched # None THEN matched[1] ELSE Len(doc.sections)
NewSectionId(doc, matched) ==
  IF matched # None THEN matched[1] ELSE Len(doc.sections) + 1

\* len(content.split())
WordCount(content) == Len(Split(content))

\* doc.sections.get(section_id)
ExistingSection(doc, section_id) ==
  IF SectionIndex(doc, section_id) = 0 THEN None
  ELSE Some(doc.sections[SectionIndex(doc, section_id)])

\* the except branch: new_content = content; new_title = title
FallbackContent_keepExisting(existing_section, content) ==
  IF existing_section = None THEN content ELSE existing_section[1].content
FallbackContent(existing_section, content) == content

FallbackTitle(existing_section, title) == title

\* the try branch: response content, and the existing title when there is one
MergedContent(response, content) == response

MergedTitle(existing_section, title) ==
  IF existing_section = None THEN title ELSE existing_section[1].title

NewContent(llm, existing_section, content) ==
  IF llm.raises # "none" THEN FallbackContent(existing_section, content)
  ELSE MergedContent(llm.content, content)

NewTitle(llm, existing_section, title) ==
  IF llm.raises # "none" THEN FallbackTitle(existing_section, title)
  ELSE MergedTitle(existing_section, title)

\* section.version += 1
BumpSection_keep(version) == version
BumpSection(version) == version + 1

\* doc.version += 1
BumpDocument(version) == version + 1

\* the section written by the `if section_id in doc.sections` statement
UpdatedSection(doc, section_id, new_title, new_content, now, context_tokens) ==
  LET i == SectionIndex(doc, section_id)
  IN IF i # 0
     THEN DocumentSection(section_id, new_title, new_content,
                          BumpSection(doc.sections[i].version),
                          Some(now), Some(context_tokens))
     ELSE DocumentSection(section_id, new_title, new_content, 0,
                          Some(now), Some(context_tokens))

\* the document after the section is stored and the document is stamped
ApplyUpdate_rebuilds(doc, section, now) ==
  LET i == SectionIndex(doc, section.id)
      sections == IF i # 0 THEN [doc.sections EXCEPT ![i] = section]
                  ELSE Append(doc.sections, section)
  IN [doc EXCEPT !.sections = sections,
                 !.metadata = <<>>,
                 !.last_modified = Some(now),
                 !.version = BumpDocument(doc.version)]
ApplyUpdate(doc, section, now) ==
  LET i == SectionIndex(doc, section.id)
      sections == IF i # 0 THEN [doc.sections EXCEPT ![i] = section]
                  ELSE Append(doc.sections, section)
  IN [doc EXCEPT !.sections = sections,
                 !.last_modified = Some(now),
                 !.version = BumpDocument(doc.version)]

\* everything update_section computes for a cached document once the matcher
\* has answered matched
update_section(doc, title, content, llm, now, matched) ==
  LET section_id == NewSectionId(doc, matched)
      existing_section == ExistingSection(doc, section_id)
      section == UpdatedSection(doc, section_id,
                                NewTitle(llm, existing_section, title),
                                NewContent(llm, existing_section, content),
                                now, WordCount(content))
  IN [matched |-> matched, section |-> section, doc |-> ApplyUpdate(doc, section, now)]

(***************************************************************************)
(* DocumentWriterTool.organize_sections.                                   *)
(***************************************************************************)
\* the loop from section i on; current_section is None for ""
RECURSIVE OrganizeLoop(_, _, _, _, _, _)
OrganizeLoop(sections, max_tokens, i, organized, current_tokens, current_section) ==
  IF i > Len(sections)
  THEN IF current_section # None THEN Append(organized, current_section[1])
       ELSE organized
  ELSE LET tokens == sections[i].context_tokens[1]
       IN IF current_tokens + tokens > max_tokens
          THEN OrganizeLoop(sections, max_tokens, i + 1,
                            IF current_section # None
                            THEN Append(organized, current_section[1])
                            ELSE organized,
                            tokens, Some(sections[i].id))
          ELSE OrganizeLoop(sections, max_tokens, i + 1, organized,
                            current_tokens + tokens, Some(sections[i].id))

organize_sections(doc, max_tokens) ==
  OrganizeLoop(doc.sections, max_tokens, 1, <<>>, 0, None)

\* create_document: DocumentContent(sections={}, created_at=now, last_modified=now)
EmptyDocument(now) == DocumentContent(<<>>, <<>>, 0, Some(now), Some(now))

(***************************************************************************)
(* State.                                                                  *)
(*   documents  self.documents of the DocumentWriterTool in use            *)
(*   files      the *.json files of the storage directory, by stem         *)
(*   clock      the value datetime.now() returns                           *)
(*   last       the most recent call: its arguments, what the environment  *)
(*              did during it, its result, and what it started from: pre   *)
(*              the cached document of doc_id, pre_exists whether doc_id   *)
(*              had a record, pre_stored the document that record held     *)
(*   lastOk     per doc_id, document.version after the latest successful   *)
(*              update_section since the document was last created or the  *)
(*              facade constructed; prevOk, the same for the one before    *)
(*   completed  doc_ids on which a create_document or update_section       *)
(*              returned normally                                          *)
(*   budget     create_document and update_section calls left to explore   *)
(*   writers    the update_section calls in progress at the same time,     *)
(*              each with its position in the method and its local names   *)
(***************************************************************************)
Put(f, k, v) == [x \in DOMAIN f \cup {k} |-> IF x = k THEN v ELSE f[x]]

NoCall ==
  [op |-> "init", doc_id |-> <<>>, outcome |-> "ok", title |-> <<>>,
   content |-> <<>>, llm_called |-> FALSE, llm_raised |-> "none",
   save |-> "none", max_tokens |-> 0, pre |-> None,
   pre_exists |-> FALSE, pre_stored |-> None, ret |-> None,
   status |-> "", failure |-> "none"]

\* the cached document of doc_id, as an Optional
Cached(docs, doc_id) == IF doc_id \in DOMAIN docs THEN Some(docs[doc_id]) ELSE None

Call(op, doc_id) ==
  [NoCall EXCEPT !.op = op, !.doc_id = doc_id,
                 !.pre = Cached(documents, doc_id),
                 !.pre_exists = _get_doc_path(doc_id) \in DOMAIN files,
                 !.pre_stored = load_document(files, doc_id).doc]

SaveResult(save) == IF save = "ok" THEN "ok" ELSE "StorageIOError"

NoHistory == [d \in DocIds |-> None]

Constructed ==
  /\ documents = <<>>
  /\ files = <<>>
  /\ clock = 1
  /\ last = NoCall
  /\ prevOk = NoHistory
  /\ lastOk = NoHistory
  /\ completed = {}
  /\ writers = <<>>

Init == Constructed /\ budget = MaxClock

(***************************************************************************)
(* DocumentWriterTool operations.                                          *)
(***************************************************************************)
\* create_document(doc_id, metadata): the metadata argument is not used
CreateDocument(doc_id, save) ==
  /\ budget > 0
  /\ budget' = budget - 1
  /\ UNCHANGED writers
  /\ LET doc == EmptyDocument(clock)
     IN /\ documents' = Put(documents, doc_id, doc)
        /\ files' = save_document(files, doc_id, doc, save)
        /\ last' = [Call("create_document", doc_id) EXCEPT
                      !.outcome = SaveResult(save), !.save = save,
                      !.ret = IF save = "ok" THEN Some(doc) ELSE None]
  /\ clock' = clock + 1
  /\ prevOk' = [prevOk EXCEPT ![doc_id] = None]
  /\ lastOk' = [lastOk EXCEPT ![doc_id] = None]
  /\ completed' = IF save = "ok" THEN completed \cup {doc_id} ELSE completed

\* get_document(doc_id)
GetDocument_returnsNone(doc_id) ==
  /\ last' = [Call("get_document", doc_id) EXCEPT !.ret = Cached(documents, doc_id)]
  /\ UNCHANGED <<documents, files, clock, prevOk, lastOk, completed, budget, writers>>
GetDocument(doc_id) ==
  /\ last' = [Call("get_document", doc_id) EXCEPT
                !.outcome = IF doc_id \in DOMAIN documents THEN "ok"
                            ELSE "DocumentNotFoundError",
                !.ret = Cached(documents, doc_id)]
  /\ UNCHANGED <<documents, files, clock, prevOk, lastOk, completed, budget, writers>>

\* the cache, the directory and the result once update_section has computed u
StoreUpdate(doc_id, call, llm, save, u) ==
  /\ documents' = [documents EXCEPT ![doc_id] = u.doc]
  /\ files' = save_document(files, doc_id, u.doc, save)
  /\ clock' = clock + 1
  /\ budget' = budget - 1
  /\ UNCHANGED writers
  /\ last' = [call EXCEPT
                !.outcome = SaveResult(save), !.save = save,
                !.llm_called = TRUE, !.llm_raised = llm.raises,
                !.ret = IF save = "ok" THEN Some(u.section) ELSE None]
  /\ IF save = "ok"
     THEN /\ prevOk' = [prevOk EXCEPT ![doc_id] = lastOk[doc_id]]
          /\ lastOk' = [lastOk EXCEPT ![doc_id] = Some(u.doc.version)]
          /\ completed' = completed \cup {doc_id}
     ELSE UNCHANGED <<prevOk, lastOk, completed>>

\* update_section from the matcher's answer on: found.raises when scoring raised
Reconcile(doc_id, title, content, llm, save, call, found) ==
  IF found.raises
  THEN /\ last' = [call EXCEPT !.outcome = "ZeroDivisionError"]
       /\ UNCHANGED <<documents, files, clock, prevOk, lastOk, completed, budget, writers>>
  ELSE IF llm.raises = "KeyboardInterrupt"
  THEN /\ last' = [call EXCEPT !.outcome = "KeyboardInterrupt",
                               !.llm_called = TRUE, !.llm_raised = llm.raises]
       /\ UNCHANGED <<documents, files, clock, prevOk, lastOk, completed, budget, writers>>
  ELSE StoreUpdate(doc_id, call, llm, save,
                   update_section(documents[doc_id], title, content, llm, clock,
                                  found.best_match))

\* update_section(doc_id, title, content); llm is what the merge call does
\* and save what the write of the record does, when the call gets that far
UpdateSection(doc_id, title, content, llm, save) ==
  /\ budget > 0
  /\ IF doc_id \notin DOMAIN documents
     THEN /\ last' = [Call("update_section", doc_id) EXCEPT
                        !.title = title, !.content = content,
                        !.outcome = "DocumentNotFoundError"]
          /\ UNCHANGED <<documents, files, clock, prevOk, lastOk, completed, budget, writers>>
     ELSE Reconcile(doc_id, title, content, llm, save,
                    [Call("update_section", doc_id) EXCEPT
                       !.title = title, !.content = content],
                    _find_most_relevant_section(documents[doc_id], title, content))

\* organize_sections(doc_id, max_tokens)
OrganizeSections(doc_id, max_tokens) ==
  /\ last' = [Call("organize_sections", doc_id) EXCEPT
                !.max_tokens = max_tokens,
                !.outcome =
                   IF doc_id \notin DOMAIN documents THEN "DocumentNotFoundError"
                   ELSE IF \E i \in 1..Len(documents[doc_id].sections) :
                              documents[doc_id].sections[i].context_tokens = None
                        THEN "TypeError"
                        ELSE "ok",
                !.ret =
                   IF doc_id \notin DOMAIN documents THEN None
                   ELSE IF \E i \in 1..Len(documents[doc_id].sections) :
                              documents[doc_id].sections[i].context_tokens = None
                        THEN None
                        ELSE Some(organize_sections(documents[doc_id], max_tokens))]
  /\ UNCHANGED <<documents, files, clock, prevOk, lastOk, completed, budget, writers>>

\* list_documents(): delegates to the storage
ListDocuments ==
  /\ last' = [Call("list_documents", <<>>) EXCEPT !.ret = Some(list_documents(files))]
  /\ UNCHANGED <<documents, files, clock, prevOk, lastOk, completed, budget, writers>>

\* __init__ / _load_existing_documents: a new DocumentWriterTool over the same
\* directory replaces the one in use; construction raises when a listed
\* record does not load
NewFacade ==
  LET listed == DOMAIN list_documents(files)
  IN IF \E p \in listed : load_document(files, p).outcome = "StorageIOError"
     THEN /\ last' = [Call("new_facade", <<>>) EXCEPT !.outcome = "StorageIOError"]
          /\ UNCHANGED <<documents, files, clock, prevOk, lastOk, completed, budget, writers>>
     ELSE /\ documents' =
               [p \in {q \in listed : load_document(files, q).outcome = "ok"} |->
                  load_document(files, p).doc[1]]
          /\ last' = Call("new_facade", <<>>)
          /\ prevOk' = NoHistory
          /\ lastOk' = NoHistory
          /\ UNCHANGED <<files, clock, completed, budget, writers>>

\* every call of the facade
Next ==
  \/ \E d \in DocIds, save \in SaveOutcomes : CreateDocument(d, save)
  \/ \E d \in DocIds, t \in Titles, c \in Contents, llm \in LLMOutcomes,
        save \in SaveOutcomes : UpdateSection(d, t, c, llm, save)
  \/ \E d \in DocIds : GetDocument(d)
  \/ \E d \in DocIds, m \in TokenLimits : OrganizeSections(d, m)
  \/ ListDocuments
  \/ NewFacade

Spec == Init /\ [][Next]_vars

\* every call of the facade, with fewer mutating calls
InitReads == Constructed /\ budget = MaxReads

SpecReads == InitReads /\ [][Next]_vars

\* the write history of the one document "a"
InitHistory == Constructed /\ budget = MaxHistory

NextHistory ==
  \/ \E save \in SaveOutcomes : CreateDocument(<<"a">>, save)
  \/ \E t \in Titles, c \in Contents, llm \in LLMOutcomes, save \in SaveOutcomes :
        UpdateSection(<<"a">>, t, c, llm, save)

SpecHistory == InitHistory /\ [][NextHistory]_vars

(***************************************************************************)
(* DocumentStorage used directly: save_document, load_document and         *)
(* list_documents on documents that need not come from the facade.         *)
(***************************************************************************)
StoreSection1 == DocumentSection(1, StoredTitle, <<"a">>, 0, Some(1), Some(1))
StoreSection2 == DocumentSection(2, <<>>, <<" ", "A", " ", " ", "b">>, 1, None, None)
StoreItem1 == DocumentMetdataItem(<<"k">>, <<"v">>)
StoreItem2 == DocumentMetdataItem(<<"k">>, <<"w">>)

\* the documents handed to save_document
StoreDocs ==
  {DocumentContent(secs, meta, stamp[1], stamp[2], stamp[3]) :
     secs \in {<<>>, <<StoreSection1, StoreSection2>>, <<StoreSection2, StoreSection1>>},
     meta \in {<<>>, <<StoreItem1, StoreItem2>>},
     stamp \in {<<0, None, None>>, <<2, Some(1), Some(2)>>}}

StoreSave(doc_id, document, save) ==
  /\ files' = save_document(files, doc_id, document, save)
  /\ last' = [Call("save_document", doc_id) EXCEPT
                !.outcome = SaveResult(save), !.save = save,
                !.ret = Some(document)]
  /\ UNCHANGED <<documents, clock, prevOk, lastOk, completed, budget, writers>>

StoreLoad(doc_id) ==
  /\ last' = [Call("load_document", doc_id) EXCEPT
                !.outcome = load_document(files, doc_id).outcome,
                !.ret = load_document(files, doc_id).doc]
  /\ UNCHANGED <<documents, files, clock, prevOk, lastOk, completed, budget, writers>>

StoreList ==
  /\ last' = [Call("list_documents", <<>>) EXCEPT !.ret = Some(list_documents(files))]
  /\ UNCHANGED <<documents, files, clock, prevOk, lastOk, completed, budget, writers>>

NextStore ==
  \/ \E d \in StoreDocIds, doc \in StoreDocs, save \in SaveOutcomes :
        StoreSave(d, doc, save)
  \/ \E d \in StoreDocIds : StoreLoad(d)
  \/ StoreList

SpecStore == Init /\ [][NextStore]_vars

\* doc_ids as callers may pass them, a non-ASCII letter among their characters
NameDocIds == StoreDocIds \cup {<<EAcute>>, <<"a", EAcute>>}

NameDocs == {doc \in StoreDocs : doc.sections = <<>> /\ doc.metadata = <<>>}

NextNames ==
  \/ \E d \in NameDocIds, doc \in NameDocs, save \in SaveOutcomes :
        StoreSave(d, doc, save)
  \/ \E d \in NameDocIds : StoreLoad(d)

SpecNames == Init /\ [][NextNames]_vars

(***************************************************************************)
(* A storage directory that other programs write to as well: records that  *)
(* save_document did not produce.                                          *)
(***************************************************************************)
\* a record without created_at and last_modified, whose section has neither
\* last_modified nor context_tokens
RecordWithoutTimestamps ==
  [version |-> 2,
   sections |-> <<[id |-> 1, title |-> <<"a">>, content |-> <<"a">>, version |-> 0]>>,
   metadata |-> <<[key |-> <<"k">>, value |-> <<"v">>]>>]

\* a record whose timestamps are null, at both levels
RecordNullTimestamps ==
  [version |-> 2,
   sections |-> <<[id |-> 1, title |-> <<"a">>, content |-> <<"a">>, version |-> 0,
                   last_modified |-> JsonNull, context_tokens |-> Some(1)]>>,
   metadata |-> <<>>, created_at |-> JsonNull, last_modified |-> JsonNull]

\* a record whose section has no title
RecordWithoutTitle ==
  [version |-> 1,
   sections |-> <<[id |-> 1, content |-> <<"a">>, version |-> 0,
                   last_modified |-> JsonNull, context_tokens |-> Some(1)]>>,
   metadata |-> <<>>, created_at |-> IsoFormat(1), last_modified |-> IsoFormat(1)]

\* a complete record, as save_document writes it
RecordComplete ==
  Serialize(DocumentContent(<<StoreSection1>>, <<StoreItem1>>, 1, Some(1), Some(2)))

\* the files another program leaves in the directory
ForeignFiles ==
  {PartialFile, JsonFile(RecordWithoutTimestamps), JsonFile(RecordNullTimestamps),
   JsonFile(RecordWithoutTitle), JsonFile(RecordComplete)}

\* another program writes file under the name stem.json
ForeignWrite(stem, file) ==
  /\ files' = Put(files, stem, file)
  /\ last' = [NoCall EXCEPT !.op = "foreign_write", !.doc_id = stem]
  /\ UNCHANGED <<documents, clock, prevOk, lastOk, completed, budget, writers>>

NextForeign ==
  \/ \E stem \in Stems, file \in ForeignFiles : ForeignWrite(stem, file)
  \/ \E d \in StoreDocIds : StoreLoad(d)
  \/ StoreList

SpecForeign == Init /\ [][NextForeign]_vars

\* facades constructed over a directory another program writes to
NextConstruct ==
  \/ \E stem \in Stems, file \in ForeignFiles : ForeignWrite(stem, file)
  \/ NewFacade

SpecConstruct == Init /\ [][NextConstruct]_vars

\* _load_existing_documents over the directory fs
_load_existing_documents(fs) ==
  LET listed == DOMAIN list_documents(fs)
  IN IF \E p \in listed : load_document(fs, p).outcome = "StorageIOError"
     THEN [raises |-> "StorageIOError", documents |-> <<>>]
     ELSE [raises |-> "none",
           documents |-> [p \in {q \in listed : load_document(fs, q).outcome = "ok"} |->
                            load_document(fs, p).doc[1]]]

\* a facade constructed over a directory that holds one record, written
\* by save_document, of a document with or without sections and metadata
InitLoaded ==
  /\ \E doc \in StoreDocs :
        /\ files = save_document(<<>>, <<"a">>, doc, "ok")
        /\ documents = _load_existing_documents(
                          save_document(<<>>, <<"a">>, doc, "ok")).documents
  /\ clock = 3
  /\ last = NoCall
  /\ prevOk = NoHistory
  /\ lastOk = NoHistory
  /\ completed = {}
  /\ writers = <<>>
  /\ budget = MaxLoaded

SpecLoaded == InitLoaded /\ [][NextHistory]_vars

(***************************************************************************)
(* edison_tools.py: the tool handlers of EdisonTools._init_document_tools.  *)
(* Every handler constructs its own DocumentWriterTool over the storage    *)
(* directory, calls it inside `try`, and returns a string from `except     *)
(* Exception`.  last.status is the message the handler returns (without    *)
(* its arguments), last.failure the exception raised inside it, and        *)
(* last.outcome "ok" when the handler returned.                            *)
(***************************************************************************)
\* what the runner passes as args: the parsed arguments model, or the JSON
\* text of the arguments
ArgsKinds == {"model", "str"}
\* what constructing the DocumentWriterTool does besides loading the records:
\* nothing, or ensure_dir raises StorageError
ConstructOutcomes == {"ok", "StorageError"}

\* DocumentWriterTool(storage_dir="documents")
ConstructTool(fs, construct) ==
  IF construct # "ok" THEN [raises |-> construct, documents |-> <<>>]
  ELSE _load_existing_documents(fs)

\* the handler returns message status after failure was raised inside it
\* ("none" when nothing was), leaving the directory as fs
HandlerReturns_propagates(call, status, failure, fs) ==
  /\ last' = [call EXCEPT
                !.outcome = IF failure = "DocumentNotFoundError" THEN failure ELSE "ok",
                !.status = IF failure = "DocumentNotFoundError" THEN "" ELSE status,
                !.failure = failure]
  /\ files' = fs
  /\ UNCHANGED <<documents, prevOk, lastOk, completed>>
HandlerReturns(call, status, failure, fs) ==
  /\ last' = [call EXCEPT !.outcome = "ok", !.status = status, !.failure = failure]
  /\ files' = fs
  /\ UNCHANGED <<documents, prevOk, lastOk, completed>>

\* create_document_handler once the tool is constructed
CreateInTool(call, doc_id, args, save, tool) ==
  IF tool.raises # "none"
  THEN HandlerReturns(call, "Failed to create document", tool.raises, files)
  ELSE IF args = "str"
  THEN HandlerReturns(call, "Failed to create document", "AttributeError", files)
  ELSE IF save # "ok"
  THEN HandlerReturns([call EXCEPT !.save = save], "Failed to create document",
                      "StorageIOError",
                      save_document(files, doc_id, EmptyDocument(clock), save))
  ELSE HandlerReturns([call EXCEPT !.save = save], "Created document", "none",
                      save_document(files, doc_id, EmptyDocument(clock), save))

create_document_handler(doc_id, args, construct, save) ==
  /\ budget > 0
  /\ budget' = budget - 1
  /\ UNCHANGED writers
  /\ clock' = clock + 1
  /\ CreateInTool(Call("create_document_handler", doc_id), doc_id, args, save,
                  ConstructTool(files, construct))

\* update_section_handler after tool.update_section returned u: the success
\* message reads parsed.section_id, which UpdateSectionArgs does not have
UpdateReturned(call, doc_id, save, u) ==
  HandlerReturns([call EXCEPT !.save = save, !.ret = Some(u.section)],
                 "Failed to update section",
                 IF save = "ok" THEN "AttributeError" ELSE "StorageIOError",
                 save_document(files, doc_id, u.doc, save))

\* update_section_handler once the matcher has answered found
UpdateMatched(call, doc_id, title, content, llm, save, doc, found) ==
  IF found.raises
  THEN HandlerReturns(call, "Failed to update section", "ZeroDivisionError", files)
  ELSE IF llm.raises = "KeyboardInterrupt"
  THEN /\ last' = [call EXCEPT !.outcome = "KeyboardInterrupt",
                               !.llm_called = TRUE, !.llm_raised = llm.raises,
                               !.failure = "KeyboardInterrupt"]
       /\ UNCHANGED <<documents, files, prevOk, lastOk, completed>>
  ELSE UpdateReturned([call EXCEPT !.llm_called = TRUE, !.llm_raised = llm.raises],
                      doc_id, save,
                      update_section(doc, title, content, llm, clock, found.best_match))

\* update_section_handler once the tool is constructed
UpdateInTool(call, doc_id, title, content, args, llm, save, tool) ==
  IF tool.raises # "none"
  THEN HandlerReturns(call, "Failed to update section", tool.raises, files)
  ELSE IF args = "str"
  THEN HandlerReturns(call, "Failed to update section", "AttributeError", files)
  ELSE IF doc_id \notin DOMAIN tool.documents
  THEN HandlerReturns(call, "Failed to update section", "DocumentNotFoundError", files)
  ELSE UpdateMatched(call, doc_id, title, content, llm, save, tool.documents[doc_id],
                     _find_most_relevant_section(tool.documents[doc_id], title, content))

update_section_handler(doc_id, title, content, args, construct, llm, save) ==
  /\ budget > 0
  /\ budget' = budget - 1
  /\ UNCHANGED writers
  /\ clock' = clock + 1
  /\ UpdateInTool([Call("update_section_handler", doc_id) EXCEPT
                     !.title = title, !.content = content],
                  doc_id, title, content, args, llm, save,
                  ConstructTool(files, construct))

\* max_tokens=4096 of organize_sections_handler
HandlerMaxTokens == 4096

\* organize_sections_handler once the tool is constructed
OrganizeInTool(call, doc_id, args, tool) ==
  IF tool.raises # "none"
  THEN HandlerReturns(call, "Failed to organize sections", tool.raises, files)
  ELSE IF args = "str"
  THEN HandlerReturns(call, "Failed to organize sections", "AttributeError", files)
  ELSE IF doc_id \notin DOMAIN tool.documents
  THEN HandlerReturns(call, "Failed to organize sections", "DocumentNotFoundError", files)
  ELSE IF \E i \in 1..Len(tool.documents[doc_id].sections) :
             tool.documents[doc_id].sections[i].context_tokens = None
  THEN HandlerReturns(call, "Failed to organize sections", "TypeError", files)
  ELSE HandlerReturns([call EXCEPT !.ret = Some(organize_sections(tool.documents[doc_id],
                                                                  HandlerMaxTokens))],
                      "organized", "none", files)

organize_sections_handler(doc_id, args, construct) ==
  /\ OrganizeInTool([Call("organize_sections_handler", doc_id) EXCEPT
                       !.max_tokens = HandlerMaxTokens],
                    doc_id, args, ConstructTool(files, construct))
  /\ UNCHANGED <<clock, budget, writers>>

\* list_documents_handler once the tool is constructed; args is not read
ListInTool(call, tool) ==
  IF tool.raises # "none"
  THEN HandlerReturns(call, "Failed to list documents", tool.raises, files)
  ELSE HandlerReturns([call EXCEPT !.ret = Some(list_documents(files))],
                      "listed", "none", files)

list_documents_handler(construct) ==
  /\ ListInTool(Call("list_documents_handler", <<>>), ConstructTool(files, construct))
  /\ UNCHANGED <<clock, budget, writers>>

\* every call of the agent runner
NextTools ==
  \/ \E d \in DocIds, args \in ArgsKinds, c \in ConstructOutcomes, save \in SaveOutcomes :
        create_document_handler(d, args, c, save)
  \/ \E d \in DocIds, t \in Titles, c \in Contents, args \in ArgsKinds,
        k \in ConstructOutcomes, llm \in LLMOutcomes, save \in SaveOutcomes :
        update_section_handler(d, t, c, args, k, llm, save)
  \/ \E d \in DocIds, args \in ArgsKinds, c \in ConstructOutcomes :
        organize_sections_handler(d, args, c)
  \/ \E c \in ConstructOutcomes : list_documents_handler(c)

SpecTools == Init /\ [][NextTools]_vars

(***************************************************************************)
(* Two update_section calls on one doc_id running at the same time, on     *)
(* one DocumentWriterTool (own = FALSE: both work on the cached object     *)
(* self.documents[doc_id]) or each on the DocumentWriterTool its handler   *)
(* constructed (own = TRUE: each works on the object its own               *)
(* _load_existing_documents read).  The method has no lock, so the         *)
(* scheduler may switch between the calls at each of its steps.            *)
(***************************************************************************)
Writers == {1, 2}

RaceDocId == <<"a">>

\* a call that has not started
NewWriter(own, title, content) ==
  [pc |-> "called", own |-> own, title |-> title, content |-> content,
   after |-> {}, tool |-> None, section_id |-> None, matched |-> None,
   existing_section |-> None, new_title |-> <<>>, new_content |-> <<>>]

\* the calls that have returned their section
Returned == {w \in Writers : writers[w].pc = "done"}

\* self.documents of the tool writer w works on
ToolOf(w) == IF writers[w].own THEN writers[w].tool[1] ELSE documents

\* tool = DocumentWriterTool(storage_dir="documents") of the handler, or the
\* tool that exists already; after is the set of calls that had returned
WriterConstruct(w) ==
  /\ writers[w].pc = "called"
  /\ LET tool == _load_existing_documents(files)
     IN writers' = [writers EXCEPT
          ![w].after = Returned,
          ![w].tool = IF writers[w].own /\ tool.raises = "none"
                      THEN Some(tool.documents) ELSE None,
          ![w].pc = IF writers[w].own /\ tool.raises # "none"
                    THEN "raised" ELSE "constructed"]
  /\ UNCHANGED <<documents, files, clock, last, prevOk, lastOk, completed, budget>>

\* the call once the matcher has answered found on the document as it is
WriterMatched(w, doc, found) ==
  writers' = [writers EXCEPT
    ![w].pc = IF found.raises THEN "raised" ELSE "matched",
    ![w].matched = found.best_match,
    ![w].section_id = Some(NewSectionId(doc, found.best_match)),
    ![w].existing_section = ExistingSection(doc, NewSectionId(doc, found.best_match))]

\* get_document, _find_most_relevant_section, section_id and existing_section
WriterMatch(w) ==
  /\ writers[w].pc = "constructed"
  /\ IF RaceDocId \notin DOMAIN ToolOf(w)
     THEN writers' = [writers EXCEPT ![w].pc = "raised"]
     ELSE WriterMatched(w, ToolOf(w)[RaceDocId],
                        _find_most_relevant_section(ToolOf(w)[RaceDocId],
                                                    writers[w].title,
                                                    writers[w].content))
  /\ UNCHANGED <<documents, files, clock, last, prevOk, lastOk, completed, budget>>

\* the chat completion returns or raises: new_content and new_title
WriterMerge(w, llm) ==
  /\ writers[w].pc = "matched"
  /\ writers' = [writers EXCEPT
       ![w].pc = IF llm.raises = "KeyboardInterrupt" THEN "raised" ELSE "merged",
       ![w].new_title = NewTitle(llm, writers[w].existing_section, writers[w].title),
       ![w].new_content = NewContent(llm, writers[w].existing_section,
                                     writers[w].content)]
  /\ UNCHANGED <<documents, files, clock, last, prevOk, lastOk, completed, budget>>

\* the document object once writer w has stored its section in it
Mutated(w, doc) ==
  ApplyUpdate(doc,
              UpdatedSection(doc, writers[w].section_id[1], writers[w].new_title,
                             writers[w].new_content, clock,
                             WordCount(writers[w].content)),
              clock)

\* `if section_id in doc.sections` up to `doc.version += 1`
WriterMutate(w) ==
  /\ writers[w].pc = "merged"
  /\ IF writers[w].own
     THEN /\ writers' = [writers EXCEPT
               ![w].pc = "mutated",
               ![w].tool = Some([ToolOf(w) EXCEPT
                                   ![RaceDocId] = Mutated(w, ToolOf(w)[RaceDocId])])]
          /\ UNCHANGED documents
     ELSE /\ writers' = [writers EXCEPT ![w].pc = "mutated"]
          /\ documents' = [documents EXCEPT
                             ![RaceDocId] = Mutated(w, documents[RaceDocId])]
  /\ UNCHANGED <<files, clock, last, prevOk, lastOk, completed, budget>>

\* self.storage.save_document(doc_id, doc); return section
WriterSave_dropsWrite(w, save) ==
  /\ writers[w].pc = "mutated"
  /\ writers' = [writers EXCEPT ![w].pc = IF save = "ok" THEN "done" ELSE "raised"]
  /\ UNCHANGED <<documents, files, clock, last, prevOk, lastOk, completed, budget>>
WriterSave(w, save) ==
  /\ writers[w].pc = "mutated"
  /\ files' = save_document(files, RaceDocId, ToolOf(w)[RaceDocId], save)
  /\ writers' = [writers EXCEPT ![w].pc = IF save = "ok" THEN "done" ELSE "raised"]
  /\ UNCHANGED <<documents, clock, last, prevOk, lastOk, completed, budget>>

\* a directory in which create_document stored an empty document, a tool
\* constructed over it, and two update_section calls about to start
InitRace ==
  /\ files = save_document(<<>>, RaceDocId, EmptyDocument(1), "ok")
  /\ documents = _load_existing_documents(
                    save_document(<<>>, RaceDocId, EmptyDocument(1), "ok")).documents
  /\ clock = 2
  /\ last = NoCall
  /\ prevOk = NoHistory
  /\ lastOk = NoHistory
  /\ completed = {}
  /\ budget = 0
  /\ \E own \in BOOLEAN, title \in [Writers -> Titles], content \in [Writers -> Contents] :
        writers = [w \in Writers |-> NewWriter(own, title[w], content[w])]

NextRace ==
  \/ \E w \in Writers : WriterConstruct(w)
  \/ \E w \in Writers : WriterMatch(w)
  \/ \E w \in Writers, llm \in LLMOutcomes : WriterMerge(w, llm)
  \/ \E w \in Writers : WriterMutate(w)
  \/ \E w \in Writers, save \in SaveOutcomes : WriterSave(w, save)

SpecRace == InitRace /\ [][NextRace]_vars

(***************************************************************************)
(* TextAnalyzer, and the scorers applied to arbitrary short texts.  The     *)
(* functions keep no state, so one call from the initial state is explored *)
(* for every choice of arguments.                                          *)
(***************************************************************************)
\* TextAnalyzer.calculate_similarity: 0.0 when either text is empty,
\* otherwise the SequenceMatcher ratio of the texts as they are
calculate_similarity(text1, text2) ==
  IF text1 = <<>> \/ text2 = <<>> THEN <<0, 1>> ELSE Ratio(text1, text2)

ComparisonResult(similarity_score, explanation) ==
  [similarity_score |-> similarity_score, explanation |-> explanation]

\* what self.openai.responses.parse does: it returns a parsed result or raises
CompareOutcomes ==
  {[raises |-> "none", output_parsed |-> ComparisonResult(<<1, 2>>, "parsed")],
   [raises |-> "Exception", output_parsed |-> ComparisonResult(<<0, 1>>, "")],
   [raises |-> "KeyboardInterrupt", output_parsed |-> ComparisonResult(<<0, 1>>, "")]}

\* TextAnalyzer.compare_sections: the parsed result, or similarity_score 0.0
\* when the call raised an Exception; any other BaseException escapes
compare_sections(section1, section2, response) ==
  IF response.raises = "none"
  THEN [raises |-> "none", result |-> Some(response.output_parsed)]
  ELSE IF response.raises = "Exception"
  THEN [raises |-> "none",
        result |-> Some(ComparisonResult(<<0, 1>>, "Failed to compare sections"))]
  ELSE [raises |-> response.raises, result |-> None]

\* the texts of at most MaxText characters over a, b and the space
RECURSIVE ShortTexts(_)
ShortTexts(n) ==
  IF n = 0 THEN {<<>>}
  ELSE ShortTexts(n - 1) \cup
       {Append(t, c) : t \in ShortTexts(n - 1), c \in {"a", "b", " "}}

\* sections handed to compare_sections
ComparedSections ==
  {DocumentSection(1, title, content, 0, None, None) :
     title \in Titles, content \in Contents}

\* analyzer.calculate_similarity(text1, text2)
CalculateSimilarity(text1, text2) ==
  /\ last = NoCall
  /\ last' = [NoCall EXCEPT !.op = "calculate_similarity",
                            !.title = text1, !.content = text2,
                            !.ret = Some(calculate_similarity(text1, text2))]
  /\ UNCHANGED <<documents, files, clock, prevOk, lastOk, completed, budget, writers>>

\* tool._calculate_similarity(text1, text2)
FacadeSimilarity(text1, text2) ==
  /\ last = NoCall
  /\ last' = [NoCall EXCEPT
                !.op = "_calculate_similarity",
                !.title = text1, !.content = text2,
                !.outcome = IF _calculate_similarity(text1, text2).raises
                            THEN "ZeroDivisionError" ELSE "ok",
                !.ret = IF _calculate_similarity(text1, text2).raises THEN None
                        ELSE Some(_calculate_similarity(text1, text2).value)]
  /\ UNCHANGED <<documents, files, clock, prevOk, lastOk, completed, budget, writers>>

\* analyzer.compare_sections(section1, section2); pre holds the sections
CompareSections(section1, section2, response) ==
  /\ last = NoCall
  /\ last' = [NoCall EXCEPT
                !.op = "compare_sections",
                !.pre = <<section1, section2>>,
                !.llm_called = TRUE, !.llm_raised = response.raises,
                !.outcome = IF compare_sections(section1, section2, response).raises = "none"
                            THEN "ok"
                            ELSE compare_sections(section1, section2, response).raises,
                !.ret = compare_sections(section1, section2, response).result]
  /\ UNCHANGED <<documents, files, clock, prevOk, lastOk, completed, budget, writers>>

NextAnalyzer ==
  \/ \E text1, text2 \in ShortTexts(MaxText) : CalculateSimilarity(text1, text2)
  \/ \E text1, text2 \in ShortTexts(MaxText) : FacadeSimilarity(text1, text2)
  \/ \E section1, section2 \in ComparedSections, response \in CompareOutcomes :
        CompareSections(section1, section2, response)

SpecAnalyzer == Init /\ [][NextAnalyzer]_vars

(***************************************************************************)
(* Properties.                                                             *)
(***************************************************************************)
\* the cached document the last call was about
After == documents[last.doc_id]

\* after contains every section of before with the same id, title, content
\* and version
KeepsSections(before, after) ==
  \A i \in 1..Len(before.sections) :
     \E j \in 1..Len(after.sections) :
        /\ after.sections[j].id = before.sections[i].id
        /\ after.sections[j].title = before.sections[i].title
        /\ after.sections[j].content = before.sections[i].content
        /\ after.sections[j].version = before.sections[i].version

C2_UpdateCreatesDocument ==
  (last.op = "update_section" /\ last.pre = None /\ ~last.pre_exists) =>
     /\ last.outcome = "ok"
     /\ last.doc_id \in DOMAIN documents
     /\ Len(After.sections) = 1
     /\ After.sections[1].version = 0
     /\ After.version = 1

\* C3: create_document on a doc_id that exists with sections keeps every
\* section in the cached document and in the stored record, and does not
\* lower document.version.
C3_CreateKeepsContent ==
  (last.op = "create_document" /\ last.pre # None
      /\ Len(last.pre[1].sections) > 0) =>
     /\ KeepsSections(last.pre[1], After)
     /\ After.version >= last.pre[1].version
     /\ last.pre_stored # None =>
           /\ load_document(files, last.doc_id).outcome = "ok"
           /\ KeepsSections(last.pre_stored[1],
                            load_document(files, last.doc_id).doc[1])

\* the last call was an update_section whose external merge call raised
MergeRaised ==
  last.op = "update_section" /\ last.llm_called /\ last.llm_raised # "none"

\* update_section returned the completely updated section: the candidate
\* content verbatim, the document version advanced by 1, and the record
\* loads as the cached document
FellBack ==
  /\ last.outcome = "ok"
  /\ last.ret # None
  /\ last.ret[1].content = last.content
  /\ SectionIndex(After, last.ret[1].id) # 0
  /\ After.sections[SectionIndex(After, last.ret[1].id)] = last.ret[1]
  /\ After.version = last.pre[1].version + 1
  /\ load_document(files, last.doc_id) = [outcome |-> "ok", doc |-> Some(After)]

Matched == last.op = "update_section" /\ last.outcome = "ok"

\* the combined score of the candidate against section i of doc
ScoreOf(doc, i) == CombinedScore(doc.sections[i], last.title, last.content).value

\* the first section in insertion order whose score no section exceeds
BestIndex(doc) ==
  SetMin({i \in 1..Len(doc.sections) :
             \A j \in 1..Len(doc.sections) : RatGE(ScoreOf(doc, i), ScoreOf(doc, j))})

\* the call merged into section i: same number of sections, same id there,
\* section version and document version advanced by 1
MergedInto(before, after, i) ==
  /\ Len(after.sections) = Len(before.sections)
  /\ after.sections[i].id = before.sections[i].id
  /\ after.sections[i].version = before.sections[i].version + 1
  /\ after.version = before.version + 1

\* the call added exactly one section and kept the others in place
AddedOne(before, after) ==
  /\ Len(after.sections) = Len(before.sections) + 1
  /\ \A i \in 1..Len(before.sections) : after.sections[i] = before.sections[i]
  /\ after.version = before.version + 1

LargestSection(doc) ==
  SetMax({0} \cup {doc.sections[i].context_tokens[1] : i \in 1..Len(doc.sections)})

\* C6: with max_tokens at least the largest section's context_tokens,
\* organize_sections returns every section id once, in insertion order.
C6_OrganizeKeepsEverySection ==
  (last.op = "organize_sections" /\ last.outcome = "ok"
      /\ last.max_tokens >= LargestSection(After)) =>
     last.ret[1] = SectionIds(After)

\* C7: after every operation the cached document of every doc_id equals
\* what load_document returns for it.
C7_CacheEqualsStorage ==
  \A k \in DOMAIN documents :
     load_document(files, k) = [outcome |-> "ok", doc |-> Some(documents[k])]

\* C8: after a save_document, failed or not, load_document returns the
\* complete document saved before or the complete new one, never a failure
\* on a partially written record.
C8_SaveIsAtomic ==
  last.op = "save_document" =>
     /\ load_document(files, last.doc_id).outcome # "StorageIOError"
     /\ \/ load_document(files, last.doc_id).doc = last.ret
        \/ load_document(files, last.doc_id).doc = last.pre_stored

\* C9: load_document right after a successful save_document returns a
\* document equal to the saved one: sections in order with their title,
\* content, version, context_tokens and timestamp, metadata in order,
\* version and timestamps.
C9_LoadAfterSave ==
  (last.op = "save_document" /\ last.outcome = "ok") =>
     load_document(files, last.doc_id) = [outcome |-> "ok", doc |-> last.ret]

\* a document with two sections, one without timestamp and token count,
\* metadata and timestamps was saved over another record
C9_Witness ==
  /\ last.op = "save_document"
  /\ last.outcome = "ok"
  /\ last.pre_exists
  /\ Len(last.ret[1].sections) = 2
  /\ last.ret[1].sections[1].last_modified = None
  /\ Len(last.ret[1].metadata) = 2
  /\ last.ret[1].created_at # None
  /\ last.ret[1].version = 2

\* C10: a newly constructed facade caches, under its original doc_id, every
\* document an earlier instance created or updated successfully and whose
\* record still loads.
C10_ReloadKeepsDocIds ==
  (last.op = "new_facade" /\ last.outcome = "ok") =>
     \A d \in completed :
        load_document(files, d).outcome = "ok" =>
           /\ d \in DOMAIN documents
           /\ Some(documents[d]) = load_document(files, d).doc

\* the handlers, and the messages their except branches return
Handlers ==
  {"create_document_handler", "update_section_handler",
   "organize_sections_handler", "list_documents_handler"}

ErrorStrings ==
  {"Failed to create document", "Failed to update section",
   "Failed to organize sections", "Failed to list documents"}

C12_MarkdownExportExists ==
  (last.op = "update_section" /\ last.outcome = "ok") =>
     /\ <<_get_doc_path(last.doc_id), ".json">> \in DirectoryEntries(files)
     /\ <<_get_doc_path(last.doc_id), ".md">> \in DirectoryEntries(files)

\* section i of after is section i of before in title, content, version and
\* context_tokens
SameSection(before, after, i) ==
  /\ after.sections[i].id = before.sections[i].id
  /\ after.sections[i].title = before.sections[i].title
  /\ after.sections[i].content = before.sections[i].content
  /\ after.sections[i].version = before.sections[i].version
  /\ after.sections[i].context_tokens = before.sections[i].context_tokens

\* after holds the sections of before and one more at the end
OneSectionAdded(before, after) ==
  /\ Len(after.sections) = Len(before.sections) + 1
  /\ \A i \in 1..Len(before.sections) : SameSection(before, after, i)
  /\ SectionIndex(before, after.sections[Len(after.sections)].id) = 0

\* after holds the sections of before with exactly one of them modified
OneSectionModified(before, after) ==
  /\ Len(after.sections) = Len(before.sections)
  /\ \E i \in 1..Len(before.sections) :
        /\ after.sections[i].id = before.sections[i].id
        /\ after.sections[i].version = before.sections[i].version + 1
        /\ \A j \in 1..Len(before.sections) : j # i => SameSection(before, after, j)

\* C13: a successful update_section adds exactly one section or modifies
\* exactly one existing section, leaves every other section's title,
\* content, version and context_tokens, the metadata list and created_at
\* unchanged, and removes no section.
C13_UpdateTouchesOneSection ==
  (last.op = "update_section" /\ last.outcome = "ok") =>
     /\ OneSectionAdded(last.pre[1], After) \/ OneSectionModified(last.pre[1], After)
     /\ After.metadata = last.pre[1].metadata
     /\ After.created_at = last.pre[1].created_at

\* an update merged into one of two sections of a document with metadata
C13_Witness ==
  /\ last.op = "update_section"
  /\ last.outcome = "ok"
  /\ Len(last.pre[1].sections) = 2
  /\ Len(last.pre[1].metadata) = 2
  /\ last.pre[1].created_at # None
  /\ OneSectionModified(last.pre[1], After)

\* the last call was a successful update_section that created its section
CreatedSection ==
  /\ last.op = "update_section"
  /\ last.outcome = "ok"
  /\ SectionIndex(last.pre[1], last.ret[1].id) = 0

\* the last call was a successful update_section that merged into a section
MergedSection ==
  /\ last.op = "update_section"
  /\ last.outcome = "ok"
  /\ SectionIndex(last.pre[1], last.ret[1].id) # 0

\* the section of the cached document that the last update_section returned
Stored == After.sections[SectionIndex(After, last.ret[1].id)]

\* the section as it was before the last update_section merged into it
Existing == last.pre[1].sections[SectionIndex(last.pre[1], last.ret[1].id)]

\* C14: a section that update_section creates is returned and stored with
\* the candidate title, the candidate content verbatim, version 0 and
\* context_tokens the word count of the candidate content, whatever the
\* external merge call returns and whether or not it fails.
C14_NewSectionIsCandidate ==
  CreatedSection =>
     /\ Stored = last.ret[1]
     /\ last.ret[1].title = last.title
     /\ last.ret[1].content = last.content
     /\ last.ret[1].version = 0
     /\ last.ret[1].context_tokens = Some(WordCount(last.content))

\* C15: when the external merge call raises and the candidate matched an
\* existing section, the merged section keeps the title the section had.
C15_FallbackKeepsTitle ==
  (MergedSection /\ last.llm_raised = "Exception") =>
     /\ last.ret[1].title = Existing.title
     /\ Stored.title = Existing.title

\* C16: every section of every cached document has context_tokens equal to
\* the word count of the content it stores.
C16_TokensCountStoredContent ==
  \A d \in DOMAIN documents :
     \A i \in 1..Len(documents[d].sections) :
        documents[d].sections[i].context_tokens =
           Some(WordCount(documents[d].sections[i].content))

\* C17: in a document created empty by the facade and changed only by
\* update_section the section ids are section_1 .. section_n in insertion
\* order: a new section gets section_{n+1} for the n sections present, and a
\* merge leaves every section under the id it had.
C17_SectionIdsArePositional ==
  /\ \A d \in DOMAIN documents :
        \A i \in 1..Len(documents[d].sections) : documents[d].sections[i].id = i
  /\ CreatedSection => last.ret[1].id = Len(last.pre[1].sections) + 1
  /\ MergedSection =>
        /\ Len(After.sections) = Len(last.pre[1].sections)
        /\ \A i \in 1..Len(After.sections) :
              After.sections[i].id = last.pre[1].sections[i].id

\* a merge into the first of at least two sections
C17_Witness ==
  /\ MergedSection
  /\ Len(After.sections) >= 2
  /\ last.ret[1].id = 1
  /\ last.ret[1].version >= 1

\* C18: update_section on a cached document with an empty title or empty
\* content is never rejected by the similarity scoring raising, whatever
\* titles and contents the sections of the document hold.
C18_EmptyInputsAreScored ==
  (last.op = "update_section" /\ last.pre # None
      /\ (last.title = <<>> \/ last.content = <<>>)) =>
     last.outcome # "ZeroDivisionError"

\* C19: get_document and organize_sections on a doc_id that is not in the
\* cache raise DocumentNotFoundError and leave the cache and the storage
\* directory as they were.
C19_UnknownDocIdRaises ==
  [][(last'.op \in {"get_document", "organize_sections"}
         /\ last'.doc_id \notin DOMAIN documents) =>
       /\ last'.outcome = "DocumentNotFoundError"
       /\ documents' = documents
       /\ files' = files]_vars

\* organize_sections raised for a doc_id the cache lacks while the cache and
\* the directory hold another document
C19_Witness ==
  /\ last.op = "organize_sections"
  /\ last.outcome = "DocumentNotFoundError"
  /\ last.pre = None
  /\ DOMAIN documents # {}
  /\ DOMAIN files # {}

\* the file load_document read in the last call
Read == files[_get_doc_path(last.doc_id)]

\* C20: load_document returns None when doc_id has no record, raises
\* StorageIOError when the record is not JSON or lacks a field a section
\* needs, and loads a record whose created_at and last_modified, of the
\* document and of its sections, are missing or null with None in their
\* place.
C20_LoadOutcomes ==
  last.op = "load_document" =>
     /\ _get_doc_path(last.doc_id) \notin DOMAIN files =>
           (last.outcome = "none" /\ last.ret = None)
     /\ _get_doc_path(last.doc_id) \in DOMAIN files =>
           /\ Read \in {PartialFile, JsonFile(RecordWithoutTitle)} =>
                 last.outcome = "StorageIOError"
           /\ Read \in {JsonFile(RecordWithoutTimestamps), JsonFile(RecordNullTimestamps)} =>
                 /\ last.outcome = "ok"
                 /\ last.ret[1].created_at = None
                 /\ last.ret[1].last_modified = None
                 /\ Len(last.ret[1].sections) = 1
                 /\ last.ret[1].sections[1].last_modified = None
                 /\ last.ret[1].sections[1].title = <<"a">>
                 /\ last.ret[1].version = 2
           /\ Read = JsonFile(RecordComplete) =>
                 /\ last.outcome = "ok"
                 /\ last.ret[1].created_at = Some(1)
                 /\ last.ret[1].sections[1].last_modified = Some(1)

\* load_document read a record that has no timestamp fields at all
C20_Witness ==
  /\ last.op = "load_document"
  /\ _get_doc_path(last.doc_id) \in DOMAIN files
  /\ Read = JsonFile(RecordWithoutTimestamps)
  /\ last.outcome = "ok"
  /\ last.ret[1].created_at = None

AsciiName(doc_id) ==
  [i \in 1..Len(doc_id) |->
     IF doc_id[i] \in {"a", "b", "A", "B", "0", "1", "-", "_", " "}
     THEN doc_id[i] ELSE "_"]

\* C22: a successful save_document(d, doc) writes the record whose name is d
\* with every character outside [A-Za-z0-9-_ ] replaced by '_', and
\* load_document(d) then finds the record.
C22_RecordNameIsAscii ==
  (last.op = "save_document" /\ last.outcome = "ok") =>
     /\ AsciiName(last.doc_id) \in DOMAIN files
     /\ load_document(files, last.doc_id).outcome = "ok"

\* the document the record of RaceDocId holds
Persisted == load_document(files, RaceDocId).doc[1]

\* one of the two calls started after the other had returned
OneAfterTheOther == \E w \in Writers : writers[w].after = Writers \ {w}

\* C23: two update_section calls on one doc_id race on the document.  When
\* both have returned their section and one ran after the other, the record
\* holds both writes: document.version counts both calls and every call
\* whose matcher found no section has a section of its own.  Only calls
\* whose steps interleave lose a write (C23_Witness).
C23_SerialCallsKeepBothWrites ==
  (Returned = Writers /\ OneAfterTheOther) =>
     /\ Persisted.version = 2
     /\ Len(Persisted.sections) >=
           Cardinality({w \in Writers : writers[w].matched = None})

\* both calls, each on the tool its handler constructed, returned their
\* section and the record counts one write only
C23_Witness ==
  /\ Returned = Writers
  /\ \A w \in Writers : writers[w].own
  /\ ~OneAfterTheOther
  /\ Persisted.version < 2

\* both calls, on one tool, returned their section, neither was matched to
\* a section and the record holds one section
C23_SharedToolLosesSection ==
  /\ Returned = Writers
  /\ \A w \in Writers : ~writers[w].own /\ writers[w].matched = None
  /\ ~OneAfterTheOther
  /\ Len(Persisted.sections) = 1

\* what the matcher of update_section answered in the last call
Found == _find_most_relevant_section(last.pre[1], last.title, last.content)

\* C24: the matcher returns (None, 0.0) for a document with no sections;
\* for a document with sections it returns the id of the first section in
\* insertion order whose combined score is maximal, together with that score.
C24_MatcherReturnsMaximum ==
  (last.op = "update_section" /\ last.pre # None /\ ~Found.raises) =>
     IF Len(last.pre[1].sections) = 0
     THEN Found.best_match = None /\ Found.best_score = <<0, 1>>
     ELSE /\ Found.best_match =
                Some(last.pre[1].sections[BestIndex(last.pre[1])].id)
          /\ RatEQ(Found.best_score, ScoreOf(last.pre[1], BestIndex(last.pre[1])))

\* C25: similarity scoring is symmetric: calculate_similarity(a, b) equals
\* calculate_similarity(b, a), and the facade's _calculate_similarity(a, b)
\* equals _calculate_similarity(b, a).
C25_SimilarityIsSymmetric ==
  /\ last.op = "calculate_similarity" =>
        RatEQ(last.ret[1], calculate_similarity(last.content, last.title))
  /\ (last.op = "_calculate_similarity" /\ last.outcome = "ok") =>
        RatEQ(last.ret[1], _calculate_similarity(last.content, last.title).value)

\* C26: when the semantic compare call raises, compare_sections returns
\* normally and its score is the lexical similarity of the two sections.
C26_CompareFallsBackToLexical ==
  (last.op = "compare_sections" /\ last.llm_raised = "Exception") =>
     /\ last.outcome = "ok"
     /\ RatEQ(last.ret[1].similarity_score,
              calculate_similarity(last.pre[1].content, last.pre[2].content))

\* the sum over the sections from i on of (section.version + 1)
RECURSIVE SectionWrites(_, _)
SectionWrites(sections, i) ==
  IF i > Len(sections) THEN 0
  ELSE sections[i].version + 1 + SectionWrites(sections, i + 1)

\* C27: a document created empty through the facade and changed by
\* update_section only has document.version equal to the sum over its
\* sections of (section.version + 1), in the cache and in every record
\* that loads.
C27_VersionCountsSectionWrites ==
  \A d \in DOMAIN documents :
     /\ documents[d].version = SectionWrites(documents[d].sections, 1)
     /\ load_document(files, d).outcome = "ok" =>
           load_document(files, d).doc[1].version =
              SectionWrites(load_document(files, d).doc[1].sections, 1)

\* an update merged into one of two sections: versions 1 and 0, document 3
C27_Witness ==
  /\ Matched
  /\ Len(After.sections) = 2
  /\ \E i \in 1..2 : After.sections[i].version = 1
  /\ After.version = 3
  /\ load_document(files, last.doc_id).doc = Some(After)

\* C28: documents with distinct doc_ids are stored in distinct records: a
\* save_document on one doc_id never creates or changes what load_document
\* returns for another doc_id.
C28_DistinctIdsDistinctRecords ==
  [][\A d1 \in StoreDocIds :
        (last'.op = "save_document" /\ last'.doc_id # d1) =>
           load_document(files', d1) = load_document(files, d1)]_vars

\* C29: the message update_section_handler returns reflects the write: it
\* is 'Failed to update section' only when the record of doc_id is as it
\* was before the call, and it is the success message whenever the update
\* was saved.
C29_UpdateMessageReflectsWrite ==
  last.op = "update_section_handler" =>
     /\ last.status = "Failed to update section" =>
           load_document(files, last.doc_id).doc = last.pre_stored
     /\ last.save = "ok" => last.status # "Failed to update section"

\* C30: constructing a DocumentWriterTool over a directory that holds a
\* record list_documents accepts and load_document cannot deserialize
\* succeeds, and the tool caches every record that does load.
C30_ConstructionSkipsUnloadable ==
  last.op = "new_facade" =>
     /\ last.outcome = "ok"
     /\ \A p \in DOMAIN files :
           load_document(files, p).outcome = "ok" =>
              /\ p \in DOMAIN documents
              /\ Some(documents[p]) = load_document(files, p).doc

====
